---------------------------- MODULE Spec2Model ----------------------------
(***************************************************************************)
(* A model of ec-cli: the decryption of puzzle assets (src/src/crypto.rs), *)
(* the assembly of a multi-part description (src/src/client.rs), the file  *)
(* layout of the local store (src/src/storage.rs) and the two commands     *)
(* that tie them together, handle_fetch and handle_read (src/src/main.rs). *)
(*                                                                         *)
(* A Rust String/&str is modelled as what it is: a sequence of UTF-8       *)
(* bytes (integers 0..255); a literal is the tuple of its bytes.            *)
(***************************************************************************)
EXTENDS Integers, Sequences, FiniteSets, TLC

(***************************************************************************)
(* Text                                                                    *)
(***************************************************************************)

\* A let binding: the value is computed once and body uses it by name.
Let(value, body(_)) == body(value)

\* The string literals of the sources, as their UTF-8 bytes.
Lit ==
  [ \* models.rs: the fields of QuestKeys
    key1 |-> <<107, 101, 121, 49>>,
    key2 |-> <<107, 101, 121, 50>>,
    key3 |-> <<107, 101, 121, 51>>,
    \* client.rs: the pieces of a separator, "\n\n", "\n PART " and " \n"
    blank_line |-> <<10, 10>>,
    part_open |-> <<10, 32, 80, 65, 82, 84, 32>>,
    part_close |-> <<32, 10>>,
    \* main.rs: the markers handle_read counts, " PART 2 " and " PART 3 ",
    \* and the texts handle_fetch splits at, "PART 2" and "PART 3"
    part2_mark |-> <<32, 80, 65, 82, 84, 32, 50, 32>>,
    part3_mark |-> <<32, 80, 65, 82, 84, 32, 51, 32>>,
    part_2 |-> <<80, 65, 82, 84, 32, 50>>,
    part_3 |-> <<80, 65, 82, 84, 32, 51>>,
    \* storage.rs: the file layout, "data", "descriptions", "inputs",
    \* "samples", ".html", ".txt", "-", and "-answer.txt" (the expected
    \* answer's file, whose name the sources do not give)
    data |-> <<100, 97, 116, 97>>,
    descriptions |->
      <<100, 101, 115, 99, 114, 105, 112, 116, 105, 111, 110, 115>>,
    inputs |-> <<105, 110, 112, 117, 116, 115>>,
    samples |-> <<115, 97, 109, 112, 108, 101, 115>>,
    dot_html |-> <<46, 104, 116, 109, 108>>,
    dot_txt |-> <<46, 116, 120, 116>>,
    dash |-> <<45>>,
    answer_txt |-> <<45, 97, 110, 115, 119, 101, 114, 46, 116, 120, 116>>,
    \* display.rs: the tags of the two patterns, <pre class="note">, <pre>,
    \* </pre>, <b> and </b>
    pre_note_open |->
      <<60, 112, 114, 101, 32, 99, 108, 97, 115, 115, 61, 34, 110, 111, 116,
      101, 34, 62>>,
    pre_open |-> <<60, 112, 114, 101, 62>>,
    pre_close |-> <<60, 47, 112, 114, 101, 62>>,
    b_open |-> <<60, 98, 62>>,
    b_close |-> <<60, 47, 98, 62>> ]

\* str::repeat: n copies of s.
repeat(s, n) == [i \in 1..(n * Len(s)) |-> s[((i - 1) % Len(s)) + 1]]

\* Does pat occur in s at byte offset i (1-based)?
MatchAt(s, pat, i) ==
  /\ i + Len(pat) - 1 <= Len(s)
  /\ \A j \in 1..Len(pat) : s[i + j - 1] = pat[j]

\* str::matches(pat).count(): the number of non-overlapping occurrences of
\* pat in s, found left to right.
RECURSIVE CountFrom(_, _, _)
CountFrom(s, pat, i) ==
  LET hits == {j \in i..Len(s) : MatchAt(s, pat, j)} IN
  IF hits = {} THEN 0
  ELSE LET first == CHOOSE j \in hits : \A k \in hits : j <= k
       IN 1 + CountFrom(s, pat, first + Len(pat))

matches_count(s, pat) == CountFrom(s, pat, 1)

\* str::contains(pat).
contains(s, pat) == \E i \in 1..Len(s) : MatchAt(s, pat, i)

\* str::find from offset i on: the offset of the first occurrence of pat in
\* s at or after i, or 0.
find_from(s, pat, i) ==
  Let({j \in i..Len(s) : MatchAt(s, pat, j)}, LAMBDA hits :
    IF hits = {} THEN 0 ELSE CHOOSE j \in hits : \A k \in hits : j <= k)

\* str::split(pat): the pieces of s between the occurrences of pat.
RECURSIVE SplitFrom(_, _, _)
SplitFrom(s, pat, i) ==
  Let(find_from(s, pat, i), LAMBDA j :
    IF j = 0 THEN <<SubSeq(s, i, Len(s))>>
    ELSE <<SubSeq(s, i, j - 1)>> \o SplitFrom(s, pat, j + Len(pat)))

split(s, pat) == SplitFrom(s, pat, 1)

\* char::is_whitespace and the regex class \s, for ASCII text.
is_whitespace(b) == b \in {9, 10, 11, 12, 13, 32}

\* str::trim_start and str::trim.
trim_start(s) ==
  LET keep == {i \in 1..Len(s) : ~is_whitespace(s[i])} IN
  IF keep = {} THEN <<>>
  ELSE SubSeq(s, CHOOSE i \in keep : \A j \in keep : i <= j, Len(s))

trim(s) ==
  LET keep == {i \in 1..Len(s) : ~is_whitespace(s[i])} IN
  IF keep = {} THEN <<>>
  ELSE SubSeq(s, CHOOSE i \in keep : \A j \in keep : i <= j,
                 CHOOSE i \in keep : \A j \in keep : j <= i)

\* i32::to_string of a number >= 0: its decimal digits.
RECURSIVE to_string(_)
to_string(n) ==
  IF n < 10 THEN <<48 + n>> ELSE to_string(n \div 10) \o <<48 + (n % 10)>>

\* Option<T>: None and Some(x).
None == [some |-> FALSE, v |-> <<>>]
Some(x) == [some |-> TRUE, v |-> x]

(***************************************************************************)
(* Errors (src/src/error.rs) and results                                   *)
(***************************************************************************)

\* Ok(v), with the stages the call went through.
Ok(v, steps) ==
  [ok |-> TRUE, val |-> v, kind |-> "", msg |-> "", steps |-> steps]

\* Err(EcError::kind(msg)), with the stages the call went through.
Err(kind, msg, steps) ==
  [ok |-> FALSE, val |-> <<>>, kind |-> kind, msg |-> msg, steps |-> steps]

(***************************************************************************)
(* Hexadecimal (the hex crate, as crypto.rs uses it)                       *)
(***************************************************************************)

\* The value of a hex digit byte, or -1 when the byte is no hex digit.
HexVal(b) ==
  IF b >= 48 /\ b <= 57 THEN b - 48
  ELSE IF b >= 97 /\ b <= 102 THEN b - 87
  ELSE IF b >= 65 /\ b <= 70 THEN b - 55
  ELSE -1

\* hex::decode: odd length is refused first, then every pair is decoded.
hex_decode(s) ==
  IF Len(s) % 2 # 0 THEN [ok |-> FALSE, val |-> <<>>, msg |-> "OddLength"]
  ELSE IF \E i \in 1..Len(s) : HexVal(s[i]) = -1
       THEN [ok |-> FALSE, val |-> <<>>, msg |-> "InvalidHexCharacter"]
  ELSE [ok |-> TRUE,
        val |-> [i \in 1..(Len(s) \div 2) |->
                   (16 * HexVal(s[(2 * i) - 1])) + HexVal(s[2 * i])],
        msg |-> ""]

\* The lower-case hex digit of a nibble.
HexDigit(n) == IF n < 10 THEN 48 + n ELSE 87 + n

\* hex::encode: two lower-case digits per byte (what the service publishes).
hex_encode(bytes) ==
  [i \in 1..(2 * Len(bytes)) |->
     IF i % 2 = 1 THEN HexDigit(bytes[(i + 1) \div 2] \div 16)
     ELSE HexDigit(bytes[i \div 2] % 16)]

(***************************************************************************)
(* The block cipher, CBC mode and PKCS#7 (the aes, cbc and block-padding   *)
(* crates, as crypto.rs uses them)                                         *)
(***************************************************************************)

\* The cipher's block size in bytes, which is also the IV's length.
BlockSize == 16

\* Bitwise exclusive or of two bytes.
RECURSIVE Xor(_, _)
Xor(a, b) ==
  IF a = 0 /\ b = 0 THEN 0
  ELSE (((a % 2) + (b % 2)) % 2) + (2 * Xor(a \div 2, b \div 2))

XorBlock(x, y) == [i \in 1..BlockSize |-> Xor(x[i], y[i])]

\* The number of rounds of the variant a key length selects:
\* Aes128 -> 10, Aes192 -> 12, Aes256 -> 14.
Rounds(key_len) == 6 + (key_len \div 4)

\* A stand-in for the AES key schedule: one round-key byte per block
\* position, depending on every byte of the key (positions i and
\* len + 1 - i cover a key of 16, 24 or 32 bytes) and on the variant.
RoundKey(key) ==
  [i \in 1..BlockSize |->
     (key[i] + key[Len(key) + 1 - i] + (i * Rounds(Len(key)))) % 256]

\* A stand-in for the AES block transformations: a keyed permutation of
\* the 16-byte blocks and its inverse.  Only these two facts about AES are
\* used: decryption inverts encryption under the same key, and the result
\* depends on the key and on the variant.
BlockEncrypt(key, block) ==
  LET rk == RoundKey(key) IN [i \in 1..BlockSize |-> (block[i] + rk[i]) % 256]

BlockDecrypt(key, block) ==
  LET rk == RoundKey(key) IN [i \in 1..BlockSize |-> (block[i] - rk[i]) % 256]

\* The i-th 16-byte block of a buffer.
Block(buf, i) == SubSeq(buf, (i - 1) * BlockSize + 1, i * BlockSize)

\* cbc::Decryptor: P_i = D_k(C_i) xor C_(i-1), with C_0 the IV.
RECURSIVE CbcDecryptFrom(_, _, _, _)
CbcDecryptFrom(key, prev, buf, i) ==
  IF i > Len(buf) \div BlockSize THEN <<>>
  ELSE XorBlock(BlockDecrypt(key, Block(buf, i)), prev)
         \o CbcDecryptFrom(key, Block(buf, i), buf, i + 1)

CbcDecrypt(key, iv, buf) == CbcDecryptFrom(key, iv, buf, 1)

\* block_padding::Pkcs7 unpadding of the decrypted buffer: the last byte n
\* must be in 1..16 and the last n bytes must all be n.
Pkcs7Unpad(buf) ==
  IF Len(buf) = 0 THEN [ok |-> FALSE, val |-> <<>>]
  ELSE LET n == buf[Len(buf)] IN
    IF n = 0 \/ n > BlockSize THEN [ok |-> FALSE, val |-> <<>>]
    ELSE IF \E j \in (Len(buf) - n + 1)..Len(buf) : buf[j] # n
         THEN [ok |-> FALSE, val |-> <<>>]
    ELSE [ok |-> TRUE, val |-> SubSeq(buf, 1, Len(buf) - n)]

\* A decryption that starts the chain from an all-zero IV instead of the
\* IV it is given.
decrypt_padded_mut_zero_iv(key, iv, buf) ==
  IF Len(buf) % BlockSize # 0 THEN [ok |-> FALSE, val |-> <<>>]
  ELSE Pkcs7Unpad(CbcDecrypt(key, [i \in 1..BlockSize |-> 0], buf))

\* BlockDecryptMut::decrypt_padded_mut::<Pkcs7>: a buffer that is not a
\* whole number of blocks is refused, then the blocks are decrypted and the
\* padding removed.
decrypt_padded_mut(key, iv, buf) ==
  IF Len(buf) % BlockSize # 0 THEN [ok |-> FALSE, val |-> <<>>]
  ELSE Pkcs7Unpad(CbcDecrypt(key, iv, buf))

\* String::from_utf8: the bytes must be well-formed UTF-8 (a lead byte and
\* the continuation bytes it announces; over-long forms are not modelled).
Utf8Need(x) ==
  IF x < 128 THEN 0
  ELSE IF x >= 194 /\ x <= 223 THEN 1
  ELSE IF x >= 224 /\ x <= 239 THEN 2
  ELSE IF x >= 240 /\ x <= 244 THEN 3
  ELSE -1

Utf8Continuation(x) == x >= 128 /\ x <= 191

\* The bytes from offset i on are well formed: every byte that is no
\* continuation byte is followed by the continuation bytes it announces,
\* and every continuation byte is one of those announced by the nearest
\* byte before it that is none.
Utf8ValidFrom(b, i) ==
  \A j \in i..Len(b) :
    IF Utf8Continuation(b[j])
    THEN \E l \in i..(j - 1) :
           /\ ~Utf8Continuation(b[l])
           /\ Utf8Need(b[l]) >= j - l
           /\ \A k \in (l + 1)..j : Utf8Continuation(b[k])
    ELSE /\ Utf8Need(b[j]) >= 0
         /\ j + Utf8Need(b[j]) <= Len(b)
         /\ \A k \in (j + 1)..(j + Utf8Need(b[j])) : Utf8Continuation(b[k])

from_utf8(bytes) ==
  IF Utf8ValidFrom(bytes, 1) THEN [ok |-> TRUE, val |-> bytes]
  ELSE [ok |-> FALSE, val |-> <<>>]

\* PKCS#7 padding as the service applies it: n = 16 - (len mod 16) bytes of
\* value n, so a whole block of padding when the text fills its blocks.
Pkcs7Pad(bytes) ==
  LET n == BlockSize - (Len(bytes) % BlockSize) IN bytes \o repeat(<<n>>, n)

\* CBC encryption as the service applies it: C_i = E_k(P_i xor C_(i-1)).
RECURSIVE CbcEncryptFrom(_, _, _, _)
CbcEncryptFrom(key, prev, buf, i) ==
  IF i > Len(buf) \div BlockSize THEN <<>>
  ELSE LET c == BlockEncrypt(key, XorBlock(Block(buf, i), prev))
       IN c \o CbcEncryptFrom(key, c, buf, i + 1)

\* The service's encryption of a text under a key of 16, 24 or 32 bytes:
\* CBC, PKCS#7, IV = the first 16 bytes of the key, hex-encoded.
encrypt_aes_cbc(plaintext, key) ==
  hex_encode(CbcEncryptFrom(key, SubSeq(key, 1, BlockSize),
                            Pkcs7Pad(plaintext), 1))

(***************************************************************************)
(* decrypt_aes_cbc (src/src/crypto.rs)                                     *)
(***************************************************************************)

\* The cipher variant a key length selects in the match on key_len.
Variant(key_len) ==
  IF key_len = 16 THEN "AES-128"
  ELSE IF key_len = 24 THEN "AES-192"
  ELSE IF key_len = 32 THEN "AES-256"
  ELSE "none"

\* decrypt_aes_cbc after the hex decoding: check the key is at least 16
\* bytes, take the IV from its first 16 bytes, select the variant by the
\* key length, decrypt and unpad, and read the bytes as UTF-8.
\* steps records, in order, the stages the call reached.
decrypt_bytes(ciphertext, key) ==
  LET key_len == Len(key) IN
  IF key_len < 16
  THEN Err("DecryptionError", "Key too short", <<"hex_decode", "key_len">>)
  ELSE IF Variant(key_len) = "none"
  THEN Err("DecryptionError", "Invalid key length",
           <<"hex_decode", "key_len", "iv", "match_key_len">>)
  ELSE
    LET iv == SubSeq(key, 1, 16)
        steps == <<"hex_decode", "key_len", "iv", "match_key_len",
                   Variant(key_len)>>
    IN
    Let(decrypt_padded_mut(key, iv, ciphertext), LAMBDA decrypted :
      IF ~decrypted.ok
      THEN Err("DecryptionError", Variant(key_len) \o " decryption failed",
               steps)
      ELSE Let(from_utf8(decrypted.val), LAMBDA text :
        IF ~text.ok
        THEN Err("DecryptionError", "UTF-8 conversion failed",
                 Append(steps, "from_utf8"))
        ELSE Ok(text.val, Append(steps, "from_utf8"))))

\* A decrypt_aes_cbc that examines the key's length before it decodes the
\* ciphertext.
decrypt_aes_cbc_key_first(ciphertext_hex, key) ==
  LET ciphertext == hex_decode(ciphertext_hex) IN
  IF Variant(Len(key)) = "none" THEN decrypt_bytes(<<>>, key)
  ELSE IF ~ciphertext.ok
  THEN Err("HexError", ciphertext.msg, <<"hex_decode">>)
  ELSE decrypt_bytes(ciphertext.val, key)

\* decrypt_aes_cbc(ciphertext_hex, key): hex-decode (an error of the
\* decoding is returned at once), then the rest.
decrypt_aes_cbc(ciphertext_hex, key) ==
  Let(hex_decode(ciphertext_hex), LAMBDA ciphertext :
    IF ~ciphertext.ok
    THEN Err("HexError", ciphertext.msg, <<"hex_decode">>)
    ELSE decrypt_bytes(ciphertext.val, key))

(***************************************************************************)
(* JSON (serde_json, as client.rs uses it).  The bodies the model feeds    *)
(* are objects whose members are strings, bare strings, and text that is   *)
(* no JSON at all; numbers, literals, escapes and nesting are not          *)
(* modelled.                                                               *)
(***************************************************************************)

\* JSON whitespace: space, line feed, carriage return, tab.
IsWs(b) == b \in {32, 10, 13, 9}

\* The first offset at or after i that holds no whitespace.
RECURSIVE SkipWs(_, _)
SkipWs(s, i) == IF i <= Len(s) /\ IsWs(s[i]) THEN SkipWs(s, i + 1) ELSE i

\* The offset of the first '"' at or after i, or 0.
FindQuote(s, i) == find_from(s, <<34>>, i)

\* A JSON string starting at offset i: its content and the offset after it.
ParseString(s, i) ==
  IF i > Len(s) \/ s[i] # 34 THEN [ok |-> FALSE, str |-> <<>>, next |-> i]
  ELSE Let(FindQuote(s, i + 1), LAMBDA j :
    IF j = 0 THEN [ok |-> FALSE, str |-> <<>>, next |-> i]
    ELSE [ok |-> TRUE, str |-> SubSeq(s, i + 1, j - 1), next |-> j + 1])

\* The members of an object, from offset i (just before a member) on: the
\* sequence of <<key, value>> read and the offset after the closing '}'.
RECURSIVE ParseMembers(_, _, _)
ParseMembers(s, i, acc) ==
  LET bad == [ok |-> FALSE, members |-> <<>>, next |-> i] IN
  Let(ParseString(s, SkipWs(s, i)), LAMBDA k :
  Let(SkipWs(s, k.next), LAMBDA c :
  Let(ParseString(s, SkipWs(s, c + 1)), LAMBDA v :
  Let(SkipWs(s, v.next), LAMBDA e :
    IF ~k.ok \/ c > Len(s) \/ s[c] # 58 \/ ~v.ok \/ e > Len(s) THEN bad
    ELSE IF s[e] = 125
         THEN [ok |-> TRUE, members |-> Append(acc, <<k.str, v.str>>),
               next |-> e + 1]
    ELSE IF s[e] = 44
         THEN ParseMembers(s, e + 1, Append(acc, <<k.str, v.str>>))
    ELSE bad))))

\* serde_json's Value::Null, Value::String and Value::Object.
JsonNull == [t |-> "null", str |-> <<>>, members |-> <<>>]
JsonString(x) == [t |-> "string", str |-> x, members |-> <<>>]
JsonObject(m) == [t |-> "object", str |-> <<>>, members |-> m]

\* serde_json::from_str::<Value>: leading whitespace is skipped, one value
\* is read, and only whitespace may follow it.
from_str(body) ==
  LET bad == [ok |-> FALSE, val |-> JsonNull] IN
  Let(SkipWs(body, 1), LAMBDA i :
    IF i > Len(body) THEN bad
    ELSE IF body[i] = 123
    THEN Let(SkipWs(body, i + 1), LAMBDA j :
         Let(IF j <= Len(body) /\ body[j] = 125
             THEN [ok |-> TRUE, members |-> <<>>, next |-> j + 1]
             ELSE ParseMembers(body, i + 1, <<>>), LAMBDA m :
           IF m.ok /\ SkipWs(body, m.next) > Len(body)
           THEN [ok |-> TRUE, val |-> JsonObject(m.members)]
           ELSE bad))
    ELSE IF body[i] = 34
    THEN Let(ParseString(body, i), LAMBDA x :
           IF x.ok /\ SkipWs(body, x.next) > Len(body)
           THEN [ok |-> TRUE, val |-> JsonString(x.str)]
           ELSE bad)
    ELSE bad)

\* value[key] for a &str key: the member of an object (the last one, when
\* the key is repeated), Null for a missing key and for a non-object.
Index(value, key) ==
  LET hits == {i \in 1..Len(value.members) : value.members[i][1] = key} IN
  IF value.t # "object" \/ hits = {} THEN JsonNull
  ELSE JsonString(value.members[CHOOSE i \in hits : \A j \in hits : j <= i][2])

\* Value::as_str: Some for a string, None otherwise.
as_str(value) == IF value.t = "string" THEN Some(value.str) ELSE None

(***************************************************************************)
(* The remote service, as the client sees it                               *)
(***************************************************************************)

\* The outcome of the idx-th HTTP request of a command.  net says which
\* request of the command fails, if any (fail_at = 0: none), and how: the
\* service is unreachable, or it answers with a non-success status.
Response(body, net, idx) ==
  IF net.fail_at = idx /\ net.how = "unreachable"
  THEN [reachable |-> FALSE, status |-> 0, body |-> <<>>]
  ELSE IF net.fail_at = idx
  THEN [reachable |-> TRUE, status |-> 500, body |-> <<>>]
  ELSE [reachable |-> TRUE, status |-> 200, body |-> body]

\* StatusCode::is_success: 200..299.
is_success(status) == status >= 200 /\ status <= 299

(***************************************************************************)
(* QuestKeys (src/src/models.rs) and EcClient (src/src/client.rs)          *)
(***************************************************************************)

\* Deserialize for QuestKeys: the body must be an object with a string
\* key1; key2 and key3 default to None when missing.
QuestKeys_from_str(body) ==
  Let(from_str(body), LAMBDA v :
  Let(as_str(Index(v.val, Lit.key1)), LAMBDA key1 :
    IF ~v.ok \/ v.val.t # "object" \/ ~key1.some
    THEN [ok |-> FALSE, key1 |-> <<>>, key2 |-> None, key3 |-> None]
    ELSE [ok |-> TRUE,
          key1 |-> key1.v,
          key2 |-> as_str(Index(v.val, Lit.key2)),
          key3 |-> as_str(Index(v.val, Lit.key3))]))

\* QuestKeys::get_key(part): key1 for part 1 and for any part outside 1..3,
\* key2 / key3 when present, an error message otherwise.
get_key(keys, part) ==
  IF part = 2 THEN keys.key2
  ELSE IF part = 3 THEN keys.key3
  ELSE Some(keys.key1)

\* A fetch_quest_keys that decodes the body whatever the status is.
fetch_quest_keys_any_status(resp) ==
  IF ~resp.reachable
  THEN Err("ApiError", "request failed", <<"get_quest">>)
  ELSE Let(QuestKeys_from_str(resp.body), LAMBDA keys :
    IF ~keys.ok THEN Err("JsonError", "quest keys", <<"get_quest">>)
    ELSE Ok(keys, <<"get_quest">>))

\* EcClient::fetch_quest_keys: one GET of the quest endpoint; a transport
\* failure is ApiError, a non-success status HttpError, an undecodable body
\* JsonError.  resp is the outcome of that one request.
fetch_quest_keys(resp) ==
  IF ~resp.reachable
  THEN Err("ApiError", "request failed", <<"get_quest">>)
  ELSE IF ~is_success(resp.status)
  THEN Err("HttpError", "Failed to fetch quest keys", <<"get_quest">>)
  ELSE Let(QuestKeys_from_str(resp.body), LAMBDA keys :
    IF ~keys.ok THEN Err("JsonError", "quest keys", <<"get_quest">>)
    ELSE Ok(keys, <<"get_quest">>))

\* The width of the rule lines of a separator, and a rule line ("=" is
\* byte 61).
RuleWidth == 80

\* The text pushed between two parts: a blank line, a rule, the line
\* " PART n ", a rule and a blank line.
Rule == repeat(<<61>>, RuleWidth)

Separator(part_num) ==
  Lit.blank_line \o Rule \o Lit.part_open \o to_string(part_num)
    \o Lit.part_close \o Rule \o Lit.blank_line

\* What fetch_description pushes for one decrypted part: the separator
\* when something was combined already, then the text.
PushPart(combined, part_num, decrypted) ==
  (IF combined # <<>> THEN combined \o Separator(part_num) ELSE combined)
    \o decrypted

\* The array with key2 given for part 3 as well.
KeyOpt_key2_twice(keys, part_num) ==
  IF part_num = 1 THEN Some(keys.key1) ELSE keys.key2

\* The (part_num, key_opt) array fetch_description iterates over.
KeyOpt(keys, part_num) ==
  IF part_num = 1 THEN Some(keys.key1)
  ELSE IF part_num = 2 THEN keys.key2
  ELSE keys.key3

\* The loop that leaves a part out when its decryption fails.
RECURSIVE Assemble_skip_corrupt(_, _, _, _, _)
Assemble_skip_corrupt(encrypted_parts, keys, part_num, combined, parts) ==
  IF part_num > 3
  THEN [res |-> Ok(combined, <<>>), parts |-> parts, failed |-> 0]
  ELSE
    Let(KeyOpt(keys, part_num), LAMBDA key_opt :
    Let(as_str(Index(encrypted_parts, to_string(part_num))),
        LAMBDA encrypted :
    Let(decrypt_aes_cbc(encrypted.v, key_opt.v), LAMBDA decrypted :
      IF key_opt.some /\ encrypted.some /\ decrypted.ok
      THEN Assemble_skip_corrupt(encrypted_parts, keys, part_num + 1,
                                 PushPart(combined, part_num, decrypted.val),
                                 Append(parts, part_num))
      ELSE Assemble_skip_corrupt(encrypted_parts, keys, part_num + 1,
                                 combined, parts))))

\* The loop of fetch_description from part_num on: a part is decrypted when
\* its key is Some and the payload holds a string under its number; the
\* first decryption error ends the loop and is the function's result.
\* parts lists the part numbers pushed so far.
RECURSIVE Assemble(_, _, _, _, _)
Assemble(encrypted_parts, keys, part_num, combined, parts) ==
  IF part_num > 3
  THEN [res |-> Ok(combined, <<>>), parts |-> parts, failed |-> 0]
  ELSE
    Let(KeyOpt(keys, part_num), LAMBDA key_opt :
    Let(as_str(Index(encrypted_parts, to_string(part_num))),
        LAMBDA encrypted :
      IF key_opt.some /\ encrypted.some
      THEN Let(decrypt_aes_cbc(encrypted.v, key_opt.v), LAMBDA decrypted :
             IF ~decrypted.ok
             THEN [res |-> decrypted, parts |-> parts, failed |-> part_num]
             ELSE Assemble(encrypted_parts, keys, part_num + 1,
                           PushPart(combined, part_num, decrypted.val),
                           Append(parts, part_num)))
      ELSE Assemble(encrypted_parts, keys, part_num + 1, combined, parts)))

\* EcClient::fetch_description: fetch the keys, GET description.json, parse
\* it as a JSON value, and assemble the parts.  first is the number, within
\* the command, of its first HTTP request.  requests counts the requests
\* it issued.
fetch_description(rem, net, first) ==
  Let(fetch_quest_keys(Response(rem.keys, net, first)), LAMBDA keys :
  Let(Response(rem.description, net, first + 1), LAMBDA response :
    IF ~keys.ok
    THEN [res |-> keys, parts |-> <<>>, failed |-> 0, requests |-> 1]
    ELSE IF ~response.reachable
    THEN [res |-> Err("ApiError", "request failed", <<>>),
          parts |-> <<>>, failed |-> 0, requests |-> 2]
    ELSE IF ~is_success(response.status)
    THEN [res |-> Err("HttpError", "Failed to fetch description", <<>>),
          parts |-> <<>>, failed |-> 0, requests |-> 2]
    ELSE Let(from_str(response.body), LAMBDA encrypted_parts :
      IF ~encrypted_parts.ok
      THEN [res |-> Err("JsonError", "description", <<>>),
            parts |-> <<>>, failed |-> 0, requests |-> 2]
      ELSE Let(Assemble(encrypted_parts.val, keys.val, 1, <<>>, <<>>),
               LAMBDA a : [res |-> a.res, parts |-> a.parts,
                           failed |-> a.failed, requests |-> 2]))))

\* EcClient::get_user_seed on a fresh client (user_seed is None): one GET
\* of the user endpoint.  The seed only names the input's URL; the body is
\* taken to decode.
get_user_seed(resp) ==
  IF ~resp.reachable THEN Err("ApiError", "request failed", <<"get_user">>)
  ELSE IF ~is_success(resp.status)
  THEN Err("HttpError", "Failed to fetch user seed", <<"get_user">>)
  ELSE Ok(<<>>, <<"get_user">>)

\* str::starts_with('{').
starts_with_brace(body) == Len(body) > 0 /\ body[1] = 123

\* str::trim_matches('"'): every leading and trailing '"' is removed.
RECURSIVE trim_matches_quote(_)
trim_matches_quote(s) ==
  IF s = <<>> THEN s
  ELSE IF s[1] = 34 THEN trim_matches_quote(Tail(s))
  ELSE IF s[Len(s)] = 34 THEN trim_matches_quote(SubSeq(s, 1, Len(s) - 1))
  ELSE s

\* The form fetch_input takes the body to have, decided by its first byte,
\* and the ciphertext it reads from it.
InputCiphertext(body, part) ==
  IF starts_with_brace(body)
  THEN Let(from_str(body), LAMBDA encrypted_parts :
         IF ~encrypted_parts.ok THEN Err("JsonError", "input", <<"object">>)
         ELSE Let(as_str(Index(encrypted_parts.val, to_string(part))),
                  LAMBDA e :
           IF ~e.some
           THEN Err("DecryptionError", "Missing part in input", <<"object">>)
           ELSE Ok(e.v, <<"object">>)))
  ELSE Ok(trim_matches_quote(body), <<"legacy">>)

\* EcClient::fetch_input: the user seed, the keys, the key of the part, GET
\* of the input, the ciphertext by the body's form, and its decryption.
\* form is the form the body was taken to have ("" when it was not read).
fetch_input(keys_body, input_body, net, first, part) ==
  Let(get_user_seed(Response(<<>>, net, first)), LAMBDA seed :
  Let(fetch_quest_keys(Response(keys_body, net, first + 1)), LAMBDA keys :
  Let(get_key(keys.val, part), LAMBDA key :
  Let(Response(input_body, net, first + 2), LAMBDA response :
  Let(InputCiphertext(response.body, part), LAMBDA encrypted :
    IF ~seed.ok THEN [res |-> seed, form |-> "", requests |-> 1]
    ELSE IF ~keys.ok THEN [res |-> keys, form |-> "", requests |-> 2]
    ELSE IF ~key.some
    THEN [res |-> Err("DecryptionError", "Part key not available yet", <<>>),
          form |-> "", requests |-> 2]
    ELSE IF ~response.reachable
    THEN [res |-> Err("ApiError", "request failed", <<>>),
          form |-> "", requests |-> 3]
    ELSE IF ~is_success(response.status)
    THEN [res |-> Err("HttpError", "Failed to fetch input", <<>>),
          form |-> "", requests |-> 3]
    ELSE IF ~encrypted.ok
    THEN [res |-> encrypted, form |-> encrypted.steps[1], requests |-> 3]
    ELSE [res |-> decrypt_aes_cbc(encrypted.val, key.v),
          form |-> encrypted.steps[1], requests |-> 3])))))

(***************************************************************************)
(* Storage (src/src/storage.rs).  A path is the sequence of its            *)
(* components; the file system maps the paths of the files that exist to   *)
(* their contents.  Directory creation and I/O failures are not modelled.  *)
(***************************************************************************)

\* Storage::new: the base path defaults to "data"; no custom paths.
Storage_new(base_path) ==
  [base_path |-> IF base_path.some THEN base_path.v ELSE <<Lit.data>>,
   description_path |-> None,
   input_path |-> None]

\* Storage::with_description_path / with_input_path.
with_description_path(storage, path) ==
  [storage EXCEPT !.description_path = Some(path)]

with_input_path(storage, path) == [storage EXCEPT !.input_path = Some(path)]

\* base/<year>/descriptions and base/<year>/inputs.
descriptions_dir(storage, year) ==
  storage.base_path \o <<to_string(year), Lit.descriptions>>

inputs_dir(storage, year) ==
  storage.base_path \o <<to_string(year), Lit.inputs>>

\* The default file of a description: <descriptions_dir>/<day>.html.
DescriptionFile(storage, year, day) ==
  Append(descriptions_dir(storage, year), to_string(day) \o Lit.dot_html)

\* The default file of an input: <inputs_dir>/<day>-<part>.txt.
InputFile(storage, year, day, part) ==
  Append(inputs_dir(storage, year),
         to_string(day) \o Lit.dash \o to_string(part) \o Lit.dot_txt)

\* Storage::samples_dir and the file Storage::save_sample writes.
samples_dir(storage, year) ==
  storage.base_path \o <<to_string(year), Lit.samples>>

SampleFile(storage, year, day, part) ==
  Append(samples_dir(storage, year),
         to_string(day) \o Lit.dash \o to_string(part) \o Lit.dot_txt)

\* The file Storage::save_expected_answer writes: one for each part, next
\* to the part's sample (the sources do not give its name).
AnswerFile(storage, year, day, part) ==
  Append(samples_dir(storage, year),
         to_string(day) \o Lit.dash \o to_string(part) \o Lit.answer_txt)

\* fs::write: the file at path holds content afterwards.
Write(fs, path, content) ==
  [p \in DOMAIN fs \cup {path} |-> IF p = path THEN content ELSE fs[p]]

\* The path Storage::save_description writes: the custom path when one is
\* set, the default file otherwise.
save_description_path(storage, year, day) ==
  IF storage.description_path.some THEN storage.description_path.v
  ELSE DescriptionFile(storage, year, day)

\* The path Storage::save_input writes.
save_input_path(storage, year, day, part) ==
  IF storage.input_path.some THEN storage.input_path.v
  ELSE InputFile(storage, year, day, part)

\* The files fs after each <<path, content>> of writes was written (the
\* paths differ).
WriteAll(fs, writes) ==
  [p \in DOMAIN fs \cup {w[1] : w \in writes} |->
     IF \E w \in writes : w[1] = p
     THEN (CHOOSE w \in writes : w[1] = p)[2]
     ELSE fs[p]]

\* Storage::has_description and Storage::load_description: both look at
\* the default file.
has_description(fs, storage, year, day) ==
  DescriptionFile(storage, year, day) \in DOMAIN fs

load_description(fs, storage, year, day) ==
  fs[DescriptionFile(storage, year, day)]

(***************************************************************************)
(* Samples and expected answers (src/src/display.rs)                       *)
(***************************************************************************)

\* The matches with the whitespace removed at both ends of the capture.
RECURSIVE SamplesFrom_trim(_, _)
SamplesFrom_trim(html, i) ==
  Let(Lit, LAMBDA tag :
  Let(find_from(html, tag.pre_note_open, i), LAMBDA open :
  Let(IF open = 0 THEN 0
      ELSE find_from(html, tag.pre_close, open + Len(tag.pre_note_open)),
      LAMBDA close :
    IF open = 0 \/ close = 0 THEN <<>>
    ELSE <<trim(SubSeq(html, open + Len(tag.pre_note_open), close - 1))>>
           \o SamplesFrom_trim(html, close + Len(tag.pre_close)))))

\* The matches of (?s)<pre class="note">(.*?)</pre> from offset i on, left
\* to right and non-overlapping: for each, the capture without its
\* leading whitespace.
RECURSIVE SamplesFrom(_, _)
SamplesFrom(html, i) ==
  Let(Lit, LAMBDA tag :
  Let(find_from(html, tag.pre_note_open, i), LAMBDA open :
  Let(IF open = 0 THEN 0
      ELSE find_from(html, tag.pre_close, open + Len(tag.pre_note_open)),
      LAMBDA close :
    IF open = 0 \/ close = 0 THEN <<>>
    ELSE <<trim_start(SubSeq(html, open + Len(tag.pre_note_open),
                             close - 1))>>
           \o SamplesFrom(html, close + Len(tag.pre_close)))))

\* extract_samples(html).
extract_samples(html) == SamplesFrom(html, 1)

\* The first offset at or after i that holds no whitespace (\s*).
RECURSIVE SkipSpace(_, _)
SkipSpace(s, i) ==
  IF i <= Len(s) /\ is_whitespace(s[i]) THEN SkipSpace(s, i + 1) ELSE i

\* A match of <pre>\s*<b>([^<]+)</b>\s*</pre> that starts at offset i: the
\* capture and the offset after the match.
AnswerAt(html, i) ==
  Let(Lit, LAMBDA tag :
  Let(SkipSpace(html, i + Len(tag.pre_open)), LAMBDA b :
  Let(b + Len(tag.b_open), LAMBDA from :
  Let(find_from(html, <<60>>, from), LAMBDA upto :
  Let(SkipSpace(html, upto + Len(tag.b_close)), LAMBDA close :
    IF /\ MatchAt(html, tag.pre_open, i)
       /\ MatchAt(html, tag.b_open, b)
       /\ upto > from
       /\ MatchAt(html, tag.b_close, upto)
       /\ MatchAt(html, tag.pre_close, close)
    THEN [ok |-> TRUE, capture |-> SubSeq(html, from, upto - 1),
          next |-> close + Len(tag.pre_close)]
    ELSE [ok |-> FALSE, capture |-> <<>>, next |-> i + 1])))))

\* The first of the matches from offset i on.
RECURSIVE LastAnswerFrom_first(_, _, _)
LastAnswerFrom_first(html, i, found) ==
  Let(find_from(html, Lit.pre_open, i), LAMBDA j :
    IF j = 0 THEN found
    ELSE Let(AnswerAt(html, j), LAMBDA m :
           IF m.ok THEN Some(trim(m.capture))
           ELSE LastAnswerFrom_first(html, m.next, found)))

\* The last of the matches from offset i on (found is the last one so far).
RECURSIVE LastAnswerFrom(_, _, _)
LastAnswerFrom(html, i, found) ==
  Let(find_from(html, Lit.pre_open, i), LAMBDA j :
    IF j = 0 THEN found
    ELSE Let(AnswerAt(html, j), LAMBDA m :
           LastAnswerFrom(html, m.next,
                          IF m.ok THEN Some(trim(m.capture)) ELSE found)))

\* extract_expected_answer(html).
extract_expected_answer(html) == LastAnswerFrom(html, 1, None)

\* The slices handle_fetch takes for parts 1, 2 and 3: the description is
\* split at "PART 2" and the piece after the first occurrence at "PART 3".
PartSlices(description) ==
  Let(split(description, Lit.part_2), LAMBDA parts :
  Let(IF Len(parts) > 1 THEN parts[1] ELSE description, LAMBDA part1_html :
  Let(IF Len(parts) > 1 THEN parts[2] ELSE <<>>, LAMBDA rest :
  Let(split(rest, Lit.part_3), LAMBDA parts3 :
    <<part1_html,
      IF rest # <<>> /\ Len(parts3) > 1 THEN parts3[1] ELSE rest,
      IF rest # <<>> /\ Len(parts3) > 1 THEN parts3[2] ELSE <<>> >>))))

\* What handle_fetch saves out of a description: for each part with a
\* slice that is not empty and holds a sample, its last sample, and the
\* expected answer when one is found.
Extracted(description) ==
  Let(PartSlices(description), LAMBDA slices :
  Let([n \in 1..3 |-> extract_samples(slices[n])], LAMBDA samples :
    [part_num \in {n \in 1..3 : slices[n] # <<>> /\ samples[n] # <<>>} |->
       [sample |-> samples[part_num][Len(samples[part_num])],
        expected_answer |-> extract_expected_answer(slices[part_num])]]))

(***************************************************************************)
(* The staleness test of handle_read (src/src/main.rs)                     *)
(***************************************************************************)

\* bool as usize.
as_usize(b) == IF b THEN 1 ELSE 0

\* available_parts of handle_read: 1, plus 1 per key of parts 2 and 3.
available_part_count(keys) ==
  1 + as_usize(keys.key2.some) + as_usize(keys.key3.some)

\* cached_parts of handle_read: 1, plus the number of " PART 2 " and of
\* " PART 3 " occurrences in the cached text.
cached_part_count(cached) ==
  1 + matches_count(cached, Lit.part2_mark)
    + matches_count(cached, Lit.part3_mark)

\* The test that makes handle_read fetch the description again.
is_stale(cached_parts, available_parts) == cached_parts < available_parts

(***************************************************************************)
(* The service's side: keys, texts and the bodies it publishes             *)
(***************************************************************************)

\* The quest's keys: 16, 24 and 32 bytes, so that each part selects a
\* different cipher variant.
Key1 == [i \in 1..16 |-> 97 + (i % 26)]
Key2 == [i \in 1..24 |-> 65 + ((3 * i) % 26)]
Key3 == [i \in 1..32 |-> 48 + ((7 * i) % 10)]

\* The texts of the parts: "alpha", "beta", "gamma".  TextLabel,
\* "a PART 2 b", is a narrative that happens to contain the label of a
\* separator; TextEmpty is an empty part.
TextA == <<97, 108, 112, 104, 97>>
TextB == <<98, 101, 116, 97>>
TextC == <<103, 97, 109, 109, 97>>
TextLabel == <<97, 32, 80, 65, 82, 84, 32, 50, 32, 98>>
TextEmpty == <<>>

\* A JSON string and a JSON object of string members, as the service
\* serialises them.
Quoted(x) == <<34>> \o x \o <<34>>

RECURSIVE Members(_)
Members(m) ==
  IF m = <<>> THEN <<>>
  ELSE Quoted(m[1][1]) \o <<58>> \o Quoted(m[1][2])
         \o (IF Len(m) > 1 THEN <<44>> ELSE <<>>) \o Members(Tail(m))

Object(m) == <<123>> \o Members(m) \o <<125>>

\* The answers of the quest endpoint: the keys unlocked so far.  The last
\* two are answers the client has to cope with: key3 without key2, and an
\* answer without key1.
KeyBodies ==
  { Object(<< <<Lit.key1, Key1>> >>),
    Object(<< <<Lit.key1, Key1>>, <<Lit.key2, Key2>> >>),
    Object(<< <<Lit.key1, Key1>>, <<Lit.key2, Key2>>, <<Lit.key3, Key3>> >>),
    Object(<< <<Lit.key1, Key1>>, <<Lit.key3, Key3>> >>),
    Object(<< <<Lit.key2, Key2>> >>) }

\* The ciphertext of part n holding text.
PartKey(n) == IF n = 1 THEN Key1 ELSE IF n = 2 THEN Key2 ELSE Key3
Part(n, text) == <<to_string(n), encrypt_aes_cbc(text, PartKey(n))>>

\* A ciphertext that is no hex ("gg00"), and one that decrypts to bytes
\* that are no UTF-8.
BadHex == <<103, 103, 48, 48>>
BadUtf8(n) == encrypt_aes_cbc(<<255>>, PartKey(n))

\* The most boxed answers (and the most example blocks) of a text.
MaxMarkers == 3

\* A boxed answer: <pre>, whitespace, <b>, the content, </b>, whitespace,
\* </pre>.  Each has the value the content trims to.
BoxedAnswer(a) ==
  Lit.pre_open \o a.gap \o Lit.b_open \o a.raw \o Lit.b_close \o a.gap
    \o Lit.pre_close

\* The boxed answers of the texts: <pre><b>7</b></pre>,
\* <pre> <b> 42 </b> </pre> and <pre>\n<b>x y\n</b>\n</pre>.
BoxedAnswers ==
  { [gap |-> <<>>, raw |-> <<55>>, value |-> <<55>>],
    [gap |-> <<32>>, raw |-> <<32, 52, 50, 32>>, value |-> <<52, 50>>],
    [gap |-> <<10>>, raw |-> <<120, 32, 121, 10>>,
     value |-> <<120, 32, 121>>] }

\* A text with the boxed answers boxes in that order, each after the
\* paragraph <p>a</p>.  With decoy, the text ends with blocks that are no
\* boxed answer: <pre>9</pre><b>8</b>.
RECURSIVE AnswerHtml(_, _)
AnswerHtml(boxes, decoy) ==
  IF boxes = <<>>
  THEN IF decoy
       THEN <<60, 112, 114, 101, 62, 57, 60, 47, 112, 114, 101, 62,
              60, 98, 62, 56, 60, 47, 98, 62>>
       ELSE <<>>
  ELSE <<60, 112, 62, 97, 60, 47, 112, 62>> \o BoxedAnswer(Head(boxes))
         \o AnswerHtml(Tail(boxes), decoy)

\* The example blocks of the texts, each with the sample it holds:
\* <pre class="note">S1</pre>, one whose content starts with "\n " and
\* ends with "\n" ("\n a,b\n\nc\n"), and one with markup and a trailing
\* space ("<b>5</b> ").
NoteBlocks ==
  { [raw |-> <<83, 49>>, value |-> <<83, 49>>],
    [raw |-> <<10, 32, 97, 44, 98, 10, 10, 99, 10>>,
     value |-> <<97, 44, 98, 10, 10, 99, 10>>],
    [raw |-> <<60, 98, 62, 53, 60, 47, 98, 62, 32>>,
     value |-> <<60, 98, 62, 53, 60, 47, 98, 62, 32>>] }

\* A text with the example blocks notes in that order, each after the
\* paragraph <p>a</p>.  With decoy, each is also preceded by a block that
\* is no example, <pre>9</pre>, and the text ends with an example block
\* that is never closed.
RECURSIVE SampleHtml(_, _)
SampleHtml(notes, decoy) ==
  IF notes = <<>>
  THEN IF decoy THEN Lit.pre_note_open \o <<83, 50>> ELSE <<>>
  ELSE <<60, 112, 62, 97, 60, 47, 112, 62>>
         \o (IF decoy THEN Lit.pre_open \o <<57>> \o Lit.pre_close
             ELSE <<>>)
         \o Lit.pre_note_open \o Head(notes).raw \o Lit.pre_close
         \o SampleHtml(Tail(notes), decoy)

\* The texts of parts with worked examples.  TextWorked(n): the example
\* blocks S0 and Sn (the second after a line feed) and then the boxed
\* answers 7 and n; TextAnswerOnly: the boxed answer 42 and no example
\* block.
TextWorked(n) ==
  Lit.pre_note_open \o <<83, 48>> \o Lit.pre_close
    \o Lit.pre_note_open \o <<10, 83, 48 + n>> \o Lit.pre_close
    \o BoxedAnswer([gap |-> <<>>, raw |-> <<55>>])
    \o BoxedAnswer([gap |-> <<32>>, raw |-> <<48 + n>>])

TextAnswerOnly == BoxedAnswer([gap |-> <<>>, raw |-> <<52, 50>>])

\* The bodies of description.json.
DescriptionBodies ==
  { \* the usual payloads: every part published, opened by the keys
    Object(<< Part(1, TextA), Part(2, TextB), Part(3, TextC) >>),
    Object(<< Part(1, TextA), Part(2, TextB) >>),
    Object(<< Part(1, TextA) >>),
    \* the same, after leading whitespace
    <<32, 10>> \o Object(<< Part(1, TextA), Part(2, TextB) >>),
    \* part 1 missing from the payload, part 1 empty
    Object(<< Part(2, TextB), Part(3, TextC) >>),
    Object(<< Part(1, TextEmpty), Part(2, TextB), Part(3, TextC) >>),
    \* a narrative that contains a separator's label
    Object(<< Part(1, TextLabel), Part(2, TextB), Part(3, TextC) >>),
    \* corrupt parts: no hex, padding of another key, no UTF-8
    Object(<< Part(1, TextA), <<to_string(2), BadHex>>, Part(3, TextC) >>),
    Object(<< Part(1, TextA), <<to_string(2), BadUtf8(2)>>,
              <<to_string(3), encrypt_aes_cbc(TextC, Key1)>> >>),
    \* part 1 with worked examples, part 2 with an answer and no example
    Object(<< Part(1, TextWorked(1)), Part(2, TextAnswerOnly),
              Part(3, TextC) >>),
    \* the legacy form: one quoted ciphertext; and text that is no JSON
    Quoted(encrypt_aes_cbc(TextA, Key1)),
    encrypt_aes_cbc(TextA, Key1) }

\* The bodies of the input asset.
InputBodies ==
  { Object(<< Part(1, TextA), Part(2, TextB), Part(3, TextC) >>),
    <<10>> \o Object(<< Part(1, TextA), Part(2, TextB), Part(3, TextC) >>),
    Quoted(encrypt_aes_cbc(TextA, Key1)) }

\* The most HTTP requests one command issues (handle_fetch: the keys and
\* the description, then the user, the keys and the input).
MaxRequests == 5

\* The circumstances of one command: a cookie is configured or not, and
\* no request fails, or the request numbered fail_at fails in the way how.
NoFault == [fail_at |-> 0, how |-> "none"]
NetFaults ==
  {NoFault} \cup [fail_at : 1..MaxRequests, how : {"unreachable", "status"}]

\* The circumstances the commands are run in: without a cookie; with one
\* and no fault; with one and a fault at each request in turn, the server
\* unreachable at the odd requests and answering an error status at the
\* even ones.
Circumstances ==
  { [cookie |-> c, net |-> NoFault] : c \in BOOLEAN }
    \cup { [cookie |-> TRUE,
            net |-> [fail_at |-> i,
                     how |-> IF i % 2 = 1 THEN "unreachable" ELSE "status"]] :
            i \in 1..MaxRequests }

\* The states of the service: what the quest endpoint answers (keys) and
\* what description.json holds (description).
Remotes == [keys : KeyBodies, description : DescriptionBodies]

(***************************************************************************)
(* The client's calls are functions of the service's state and of the      *)
(* network's faults.  They are tabulated once over the states and faults   *)
(* above, and the commands look their results up.                          *)
(***************************************************************************)

fetch_quest_keys_table ==
  [net \in NetFaults |->
     [k \in KeyBodies |-> fetch_quest_keys(Response(k, net, 1))] @@ <<>>]
    @@ <<>>

FetchQuestKeys(keys_body, net) == fetch_quest_keys_table[net][keys_body]

fetch_description_table ==
  [first \in {1, 2} |->
     [net \in NetFaults |->
        [r \in Remotes |-> fetch_description(r, net, first)] @@ <<>>]
       @@ <<>>]
    @@ <<>>

FetchDescription(rem, net, first) == fetch_description_table[first][net][rem]

fetch_input_table ==
  [first \in {1, 3} |->
     [part \in 1..3 |->
        [net \in NetFaults |->
           [k \in KeyBodies |->
              [b \in InputBodies |-> fetch_input(k, b, net, first, part)]
                @@ <<>>]
             @@ <<>>]
          @@ <<>>]
       @@ <<>>]
    @@ <<>>

FetchInput(keys_body, input_body, net, first, part) ==
  fetch_input_table[first][part][net][keys_body][input_body]

\* The documents fetch_description can return: the texts a description
\* file can hold.
Documents ==
  { fetch_description_table[1][NoFault][r].res.val :
      r \in {x \in Remotes : fetch_description_table[1][NoFault][x].res.ok} }

cached_part_count_table ==
  [d \in Documents |-> cached_part_count(d)] @@ <<>>

CachedPartCount(cached) == cached_part_count_table[cached]

extracted_table == [d \in Documents |-> Extracted(d)] @@ <<>>


(***************************************************************************)
(* The commands (src/src/main.rs)                                          *)
(***************************************************************************)

\* A fetch_description / fetch_input that was not called.
NoDescription ==
  [res |-> Err("", "not called", <<>>), parts |-> <<>>, failed |-> 0,
   requests |-> 0]
NoInput == [res |-> Err("", "not called", <<>>), form |-> "", requests |-> 0]

\* What a command did: the log the properties read.
\*   op                  "fetch" or "read" ("none" before any command)
\*   ok, kind, msg       the command's result: Ok(()) or Err(EcError)
\*   had_cache, cached   whether the description was found locally; its text
\*   keys_ok             handle_read obtained the keys for its staleness test
\*   available_parts, cached_parts   the two counts of that test
\*   description, input  the outcome of the fetch_description / fetch_input
\*                       call the command made (requests = 0: no call)
\*   shown               the text handed to html_to_text for display
\*   written             the paths the command wrote
NoLog ==
  [op |-> "none", ok |-> TRUE, kind |-> "", msg |-> "",
   had_cache |-> FALSE, cached |-> <<>>, keys_ok |-> FALSE,
   available_parts |-> 0, cached_parts |-> 0,
   description |-> NoDescription, input |-> NoInput,
   shown |-> None, written |-> {}]

\* The log of a command that ended with the error of result r.
Failed(log, r) == [log EXCEPT !.ok = FALSE, !.kind = r.kind, !.msg = r.msg]

\* EcClient::new: Err(MissingCookie) when no cookie is found.
MissingCookie == Err("MissingCookie", "Authentication failed", <<>>)

\* A handle_read that saves what the re-fetch returned before it looks at
\* its result.
handle_read_save_first(fs, rem, year, day, cookie, net) ==
  Let(Storage_new(None), LAMBDA storage :
  Let(save_description_path(storage, year, day), LAMBDA path :
  Let([NoLog EXCEPT !.op = "read"], LAMBDA log0 :
    IF has_description(fs, storage, year, day)
    THEN
      Let(load_description(fs, storage, year, day), LAMBDA cached :
      Let([log0 EXCEPT !.had_cache = TRUE, !.cached = cached], LAMBDA log1 :
      Let(FetchQuestKeys(rem.keys, net), LAMBDA keys :
      Let(available_part_count(keys.val), LAMBDA available_parts :
      Let(CachedPartCount(cached), LAMBDA cached_parts :
      Let([log1 EXCEPT !.keys_ok = TRUE,
                       !.available_parts = available_parts,
                       !.cached_parts = cached_parts], LAMBDA log2 :
      Let(FetchDescription(rem, net, 2), LAMBDA desc :
      Let([log2 EXCEPT !.description = desc], LAMBDA log3 :
        IF ~cookie THEN [fs |-> fs, log |-> Failed(log1, MissingCookie)]
        ELSE IF ~keys.ok THEN [fs |-> fs, log |-> Failed(log1, keys)]
        ELSE IF is_stale(cached_parts, available_parts)
        THEN IF ~desc.res.ok
             THEN [fs |-> Write(fs, path, desc.res.val),
                   log |-> Failed(log3, desc.res)]
             ELSE [fs |-> Write(fs, path, desc.res.val),
                   log |-> [log3 EXCEPT !.written = {path},
                                        !.shown = Some(desc.res.val)]]
        ELSE [fs |-> fs, log |-> [log2 EXCEPT !.shown = Some(cached)]]
      ))))))))
    ELSE
      Let(FetchDescription(rem, net, 1), LAMBDA desc :
      Let([log0 EXCEPT !.description = desc], LAMBDA log3 :
        IF ~cookie THEN [fs |-> fs, log |-> Failed(log0, MissingCookie)]
        ELSE IF ~desc.res.ok THEN [fs |-> fs, log |-> Failed(log3, desc.res)]
        ELSE [fs |-> Write(fs, path, desc.res.val),
              log |-> [log3 EXCEPT !.written = {path},
                                   !.shown = Some(desc.res.val)]])))))

\* handle_read(base_path, year, day, width): the file system and the log
\* it leaves.  cookie: a cookie is configured; net: the network's faults.
handle_read(fs, rem, year, day, cookie, net) ==
  Let(Storage_new(None), LAMBDA storage :
  Let(save_description_path(storage, year, day), LAMBDA path :
  Let([NoLog EXCEPT !.op = "read"], LAMBDA log0 :
    IF has_description(fs, storage, year, day)
    THEN
      Let(load_description(fs, storage, year, day), LAMBDA cached :
      Let([log0 EXCEPT !.had_cache = TRUE, !.cached = cached], LAMBDA log1 :
      Let(FetchQuestKeys(rem.keys, net), LAMBDA keys :
      Let(available_part_count(keys.val), LAMBDA available_parts :
      Let(CachedPartCount(cached), LAMBDA cached_parts :
      Let([log1 EXCEPT !.keys_ok = TRUE,
                       !.available_parts = available_parts,
                       !.cached_parts = cached_parts], LAMBDA log2 :
      Let(FetchDescription(rem, net, 2), LAMBDA desc :
      Let([log2 EXCEPT !.description = desc], LAMBDA log3 :
        IF ~cookie THEN [fs |-> fs, log |-> Failed(log1, MissingCookie)]
        ELSE IF ~keys.ok THEN [fs |-> fs, log |-> Failed(log1, keys)]
        ELSE IF is_stale(cached_parts, available_parts)
        THEN IF ~desc.res.ok
             THEN [fs |-> fs, log |-> Failed(log3, desc.res)]
             ELSE [fs |-> Write(fs, path, desc.res.val),
                   log |-> [log3 EXCEPT !.written = {path},
                                        !.shown = Some(desc.res.val)]]
        ELSE [fs |-> fs, log |-> [log2 EXCEPT !.shown = Some(cached)]]
      ))))))))
    ELSE
      Let(FetchDescription(rem, net, 1), LAMBDA desc :
      Let([log0 EXCEPT !.description = desc], LAMBDA log3 :
        IF ~cookie THEN [fs |-> fs, log |-> Failed(log0, MissingCookie)]
        ELSE IF ~desc.res.ok THEN [fs |-> fs, log |-> Failed(log3, desc.res)]
        ELSE [fs |-> Write(fs, path, desc.res.val),
              log |-> [log3 EXCEPT !.written = {path},
                                   !.shown = Some(desc.res.val)]])))))

\* handle_fetch(base_path, year, day, part, description_only, input_only,
\* description_path, ...): the file system and the log it leaves.
handle_fetch(fs, rem, input_body, year, day, args, cookie, net) ==
  Let(Storage_new(None), LAMBDA storage0 :
  Let(IF args.description_path.some
      THEN with_description_path(storage0, args.description_path.v)
      ELSE storage0, LAMBDA storage :
  Let([NoLog EXCEPT !.op = "fetch"], LAMBDA log0 :
  Let(FetchDescription(rem, net, 1), LAMBDA desc :
  Let(save_description_path(storage, year, day), LAMBDA dpath :
  \* the last sample and the expected answer of each part
  Let(extracted_table[desc.res.val], LAMBDA extracted :
  Let({ <<SampleFile(storage, year, day, n), extracted[n].sample>> :
          n \in DOMAIN extracted }
        \cup { <<AnswerFile(storage, year, day, n),
                 extracted[n].expected_answer.v>> :
                 n \in {m \in DOMAIN extracted :
                          extracted[m].expected_answer.some} },
      LAMBDA samples :
  \* after the description block
  Let(IF args.input_only THEN fs
      ELSE WriteAll(Write(fs, dpath, desc.res.val), samples), LAMBDA fs1 :
  Let(IF args.input_only THEN log0
      ELSE [log0 EXCEPT !.description = desc,
                        !.written = {dpath} \cup {w[1] : w \in samples}],
      LAMBDA log1 :
  Let(FetchInput(rem.keys, input_body, net,
                 IF args.input_only THEN 1 ELSE 3, args.part),
      LAMBDA input :
  Let(save_input_path(storage, year, day, args.part), LAMBDA ipath :
  Let([log1 EXCEPT !.input = input], LAMBDA log2 :
    IF ~cookie THEN [fs |-> fs, log |-> Failed(log0, MissingCookie)]
    ELSE IF ~args.input_only /\ ~desc.res.ok
    THEN [fs |-> fs,
          log |-> Failed([log0 EXCEPT !.description = desc], desc.res)]
    ELSE IF args.description_only THEN [fs |-> fs1, log |-> log1]
    ELSE IF ~input.res.ok THEN [fs |-> fs1, log |-> Failed(log2, input.res)]
    ELSE [fs |-> Write(fs1, ipath, input.res.val),
          log |-> [log2 EXCEPT !.written = @ \cup {ipath}]]
  ))))))))))))

(***************************************************************************)
(* The state machine                                                       *)
(***************************************************************************)

\* The quest the commands are run for.
Quest == [year |-> 2024, day |-> 1]

\* A custom --description-path: out/q.html.
CustomDescriptionPath ==
  << <<111, 117, 116>>, <<113, 46, 104, 116, 109, 108>> >>

\* The arguments handle_fetch is run with: the part, --description-only,
\* --input-only and --description-path.
FetchArgs ==
  { [part |-> 1, description_only |-> FALSE, input_only |-> FALSE,
     description_path |-> None],
    [part |-> 2, description_only |-> TRUE, input_only |-> FALSE,
     description_path |-> Some(CustomDescriptionPath)],
    [part |-> 2, description_only |-> FALSE, input_only |-> TRUE,
     description_path |-> None],
    [part |-> 3, description_only |-> TRUE, input_only |-> FALSE,
     description_path |-> None] }

VARIABLES
  remote,   \* what the service answers: the quest endpoint's body (keys)
            \* and description.json (description)
  files,    \* the local files: path -> content
  last,     \* the log of the last command
  call,     \* a call of one of the client's functions: its name and inputs
  result    \* the value that call returned

vars == <<remote, files, last, call, result>>

\* No function is called on its own; a call that has not returned.
NoCall == [fn |-> "none"]
NoResult == [returned |-> FALSE]
Returned(v) == [returned |-> TRUE, value |-> v]

\* No local file, no command run; the service is in any of its states.
Init ==
  /\ remote \in Remotes
  /\ files = <<>>
  /\ last = NoLog
  /\ call = NoCall
  /\ result = NoResult

\* The user runs `ec-cli read`.
Read ==
  \E c \in Circumstances :
  \E r \in {handle_read(files, remote, Quest.year, Quest.day, c.cookie,
                         c.net)} :
    /\ files' = r.fs
    /\ last' = r.log
    /\ UNCHANGED <<remote, call, result>>

\* The user runs `ec-cli fetch`.
Fetch ==
  \E args \in FetchArgs, c \in Circumstances :
  \E input \in (IF args.description_only THEN {<<>>} ELSE InputBodies) :
  \E r \in {handle_fetch(files, remote, input, Quest.year, Quest.day, args,
                          c.cookie, c.net)} :
    /\ files' = r.fs
    /\ last' = r.log
    /\ UNCHANGED <<remote, call, result>>

\* The service unlocks (or withdraws) keys between two commands.
RemoteKeys ==
  \E k \in KeyBodies :
    /\ k # remote.keys
    /\ remote' = [remote EXCEPT !.keys = k]
    /\ last' = NoLog
    /\ UNCHANGED <<files, call, result>>

Next == Read \/ Fetch \/ RemoteKeys

Spec == Init /\ [][Next]_vars

(***************************************************************************)
(* The client's functions on their own: a call is drawn from the inputs    *)
(* below and the function applied to it.                                   *)
(***************************************************************************)

\* Keys of every length around the three the cipher accepts.
KeyOfLen(n) == [i \in 1..n |-> 97 + (i % 26)]
KeyLens == {0, 15, 16, 17, 23, 24, 25, 31, 32, 33}
Keys == {KeyOfLen(n) : n \in KeyLens} \cup {Key1, Key2, Key3}

\* Plaintexts: UTF-8 texts that are empty, shorter than a block, one byte
\* short of a block, a whole block, one byte more, two blocks, and a text
\* with a two-byte character ("g\u00e9").
TextOfLen(n) == [i \in 1..n |-> 65 + ((5 * i) % 26)]
TextLens == {0, 1, 15, 16, 17, 32}
Plaintexts == {TextOfLen(n) : n \in TextLens} \cup {<<103, 195, 169>>}

\* Ciphertexts: well-formed ones (of each key, of no UTF-8 text, of no
\* whole block: "00ff", empty), ones that are no hex (a bad digit:
\* "gg00", odd length: "abc", both: "g00"), and the encryption of every
\* plaintext under every key of 16, 24 or 32 bytes.
Ciphertexts ==
  { encrypt_aes_cbc(TextA, Key1), encrypt_aes_cbc(TextB, Key2),
    encrypt_aes_cbc(TextC, Key3), BadUtf8(1), <<48, 48, 102, 102>>,
    <<>>,
    BadHex, <<97, 98, 99>>, <<103, 48, 48>> }
    \cup { encrypt_aes_cbc(p, k) :
             p \in Plaintexts, k \in {x \in Keys : Len(x) \in {16, 24, 32}} }

\* Answers of the quest endpoint as lists of members: objects with and
\* without each of key1, key2 and key3, the empty object included.
KeyMemberLists ==
  { << <<Lit.key1, Key1>> >>,
    << <<Lit.key1, Key1>>, <<Lit.key2, Key2>> >>,
    << <<Lit.key1, Key1>>, <<Lit.key2, Key2>>, <<Lit.key3, Key3>> >>,
    << <<Lit.key1, Key1>>, <<Lit.key3, Key3>> >>,
    << <<Lit.key2, Key2>> >>,
    << <<Lit.key2, Key2>>, <<Lit.key3, Key3>> >>,
    << >> }

\* Answers that are no JSON object: an empty body, the text "oops", an
\* object cut short, and a bare JSON string.
UndecodableKeyBodies ==
  { <<>>, <<111, 111, 112, 115>>,
    <<123>> \o Members(<< <<Lit.key1, Key1>> >>),
    Quoted(Key1) }

KeyAnswers == {Object(m) : m \in KeyMemberLists} \cup UndecodableKeyBodies

Calls ==
  [fn : {"decrypt_aes_cbc"}, ciphertext_hex : Ciphertexts, key : Keys]
    \cup [fn : {"extract_samples"},
          notes : UNION {[1..n -> NoteBlocks] : n \in 0..MaxMarkers},
          decoy : BOOLEAN]
    \cup [fn : {"extract_expected_answer"},
          answers : UNION {[1..n -> BoxedAnswers] : n \in 0..MaxMarkers},
          decoy : BOOLEAN]
    \cup [fn : {"fetch_quest_keys"}, body : KeyAnswers, net : NetFaults]
    \cup [fn : {"fetch_description"}, rem : Remotes, net : NetFaults]
    \cup [fn : {"fetch_input"}, keys : KeyBodies, input : InputBodies,
          part : 1..3, net : NetFaults]
    \cup [fn : {"cached_part_count"}, cached : Documents]

\* One call, not returned yet; no command is run.  The service is in the
\* state of the call when the call reads it.
InitCalls ==
  /\ call \in Calls
  /\ result = NoResult
  /\ remote = IF call.fn = "fetch_description" THEN call.rem
              ELSE CHOOSE r \in Remotes : TRUE
  /\ files = <<>>
  /\ last = NoLog

\* The call returns v.
Return(v) ==
  /\ result = NoResult
  /\ result' = Returned(v)
  /\ UNCHANGED <<remote, files, last, call>>

Decrypt ==
  /\ call.fn = "decrypt_aes_cbc"
  /\ Return(decrypt_aes_cbc(call.ciphertext_hex, call.key))

FetchQuestKeysCall ==
  /\ call.fn = "fetch_quest_keys"
  /\ Return(fetch_quest_keys(Response(call.body, call.net, 1)))

ExtractExpectedAnswerCall ==
  /\ call.fn = "extract_expected_answer"
  /\ Return(extract_expected_answer(AnswerHtml(call.answers, call.decoy)))

ExtractSamplesCall ==
  /\ call.fn = "extract_samples"
  /\ Return(extract_samples(SampleHtml(call.notes, call.decoy)))

FetchDescriptionCall ==
  /\ call.fn = "fetch_description"
  /\ Return(FetchDescription(call.rem, call.net, 1))

FetchInputCall ==
  /\ call.fn = "fetch_input"
  /\ Return(FetchInput(call.keys, call.input, call.net, 1, call.part))

CachedPartCountCall ==
  /\ call.fn = "cached_part_count"
  /\ Return(CachedPartCount(call.cached))

NextCalls ==
  \/ Decrypt
  \/ FetchQuestKeysCall
  \/ ExtractExpectedAnswerCall
  \/ ExtractSamplesCall
  \/ FetchDescriptionCall
  \/ FetchInputCall
  \/ CachedPartCountCall

SpecCalls == InitCalls /\ [][NextCalls]_vars

(***************************************************************************)
(* decrypt_aes_cbc: the order and the kinds of its errors                  *)
(***************************************************************************)

\* A text of hexadecimal digits, two for each byte.
HexDigits ==
  {48 + d : d \in 0..9} \cup {97 + d : d \in 0..5} \cup {65 + d : d \in 0..5}
IsHexText(s) == Len(s) % 2 = 0 /\ \A i \in 1..Len(s) : s[i] \in HexDigits

\* The key lengths the cipher accepts; the names of its variants.
SupportedKeyLens == {16, 24, 32}
VariantNames == {"AES-128", "AES-192", "AES-256"}
StepsOf(r) == {r.steps[i] : i \in 1..Len(r.steps)}

DecryptReturned == call.fn = "decrypt_aes_cbc" /\ result.returned

\* C10: decrypt_aes_cbc on a ciphertext that contains a character that is
\* no hex digit, or that has odd length, fails with the hex decoding error
\* (HexError), having reached no other stage than the decoding: the key's
\* length is not examined and no cipher is run, whatever the key is, keys
\* of unsupported length included.
C10_InvalidEncodingFirst ==
  (DecryptReturned /\ ~IsHexText(call.ciphertext_hex)) =>
    /\ ~result.value.ok
    /\ result.value.kind = "HexError"
    /\ result.value.steps = <<"hex_decode">>

\* C10's case: a ciphertext that is no hex was given with a key of
\* unsupported length, and the call returned the hex decoding error.
C10_Witness ==
  /\ DecryptReturned
  /\ ~IsHexText(call.ciphertext_hex)
  /\ Len(call.key) \notin SupportedKeyLens
  /\ result.value.kind = "HexError"

\* The kinds (EcError variants) of the failures of the padding and of the
\* text encoding: those of the calls with a key of supported length that
\* selected a variant and failed.
PaddingAndEncodingKinds ==
  { decrypt_aes_cbc(c, k).kind :
      <<c, k>> \in { x \in Ciphertexts \X Keys :
                      LET r == decrypt_aes_cbc(x[1], x[2])
                      IN ~r.ok /\ StepsOf(r) \cap VariantNames # {} } }

\* C9: decrypt_aes_cbc with a key whose length is not 16, 24 or 32 and a
\* well-formed hex ciphertext fails with one error kind, the same for
\* every such length, that is not the kind of a padding or text-encoding
\* failure, and no cipher variant is selected or run.
C9_UnsupportedKeySize ==
  (/\ DecryptReturned
   /\ IsHexText(call.ciphertext_hex)
   /\ Len(call.key) \notin SupportedKeyLens) =>
    /\ ~result.value.ok
    /\ StepsOf(result.value) \cap VariantNames = {}
    /\ \A k \in Keys :
         Len(k) \notin SupportedKeyLens =>
           decrypt_aes_cbc(call.ciphertext_hex, k).kind = result.value.kind
    /\ result.value.kind \notin PaddingAndEncodingKinds


(***************************************************************************)
(* fetch_description: the assembly of the description                      *)
(***************************************************************************)

DescriptionReturned == call.fn = "fetch_description" /\ result.returned

\* What the service in state rem publishes: the payload (description.json
\* as a JSON value) and the keys the quest endpoint reports.
PayloadOf(rem) == from_str(rem.description)
PublishedOf(rem) == QuestKeys_from_str(rem.keys)

\* Key k as the service reports it (key1 always, key2 and key3 when
\* unlocked), and the ciphertext the payload holds for part k.
KeyOf(rem, k) ==
  <<Some(PublishedOf(rem).key1), PublishedOf(rem).key2,
    PublishedOf(rem).key3>>[k]
CiphertextOf(rem, k) == as_str(Index(PayloadOf(rem).val, to_string(k)))

\* The parts assembly has to include: present in the payload, key
\* available.  PlainOf(rem, k) is the decryption of such a part;
\* CorruptOf(rem) are those whose decryption fails.
IncludableOf(rem) ==
  {k \in 1..3 : KeyOf(rem, k).some /\ CiphertextOf(rem, k).some}
PlainOf(rem, k) == decrypt_aes_cbc(CiphertextOf(rem, k).v, KeyOf(rem, k).v)
CorruptOf(rem) == {k \in IncludableOf(rem) : ~PlainOf(rem, k).ok}

\* The same for the service state of the call.
Payload == PayloadOf(call.rem)
Published == PublishedOf(call.rem)
KeyFor(k) == KeyOf(call.rem, k)
CiphertextFor(k) == CiphertextOf(call.rem, k)
Includable == IncludableOf(call.rem)
PlainFor(k) == PlainOf(call.rem, k)
Corrupt == CorruptOf(call.rem)

\* The call reached assembly over a payload of the multi-part form: both
\* requests were answered, the keys decoded, the payload is an object.
AssemblyRan ==
  /\ DescriptionReturned
  /\ call.net.fail_at \notin {1, 2}
  /\ Published.ok
  /\ Payload.ok
  /\ Payload.val.t = "object"

Ascending(S) == SelectSeq(<<1, 2, 3>>, LAMBDA k : k \in S)

\* The texts of the parts ks, in that order, part k led by its separator
\* where led[k].
RECURSIVE JoinParts(_, _)
JoinParts(ks, led) ==
  IF ks = <<>> THEN <<>>
  ELSE (IF led[ks[1]] THEN Separator(ks[1]) ELSE <<>>)
         \o PlainFor(ks[1]).val \o JoinParts(Tail(ks), led)

\* C5: assembly over the multi-part payload includes exactly the parts
\* that are present in the payload and whose key is available, in
\* ascending order of part number: unless one of those parts is corrupt it
\* succeeds, also when a part of the payload has no key, and the document
\* is the texts of those parts in ascending order (each led by its
\* separator or by nothing).
C5_AssemblesAvailableParts ==
  (AssemblyRan /\ Corrupt = {}) =>
    /\ result.value.res.ok
    /\ result.value.parts = Ascending(Includable)
    /\ \E led \in [1..3 -> BOOLEAN] :
         result.value.res.val = JoinParts(Ascending(Includable), led)

\* C5's case: the payload holds a part whose key is not available (and
\* one whose key is), and assembly returned a document without it.
C5_Witness ==
  /\ AssemblyRan
  /\ Corrupt = {}
  /\ \E k \in 2..3 : CiphertextFor(k).some /\ ~KeyFor(k).some
  /\ Includable = {1, 3}
  /\ result.value.res.ok
  /\ result.value.parts = <<1, 3>>

\* C3: in every assembled document each included part k of 2 and 3 is
\* immediately preceded by the separator labelled "PART k", and part 1 has
\* no leading separator, whatever parts the payload holds and whatever
\* keys are available (part 1 missing or empty included).
C3_SeparatorBeforeParts2And3 ==
  (AssemblyRan /\ Corrupt = {}) =>
    /\ result.value.res.ok
    /\ result.value.res.val =
         JoinParts(Ascending(Includable), [k \in 1..3 |-> k >= 2])

\* C4: for k = 2, 3 the marker of part k (" PART k ", what handle_read
\* looks for) occurs in the assembled document if and only if part k was
\* decrypted and included.
C4_MarkerIffIncluded ==
  (AssemblyRan /\ Corrupt = {}) =>
    /\ result.value.res.ok
    /\ contains(result.value.res.val, Lit.part2_mark) <=> 2 \in Includable
    /\ contains(result.value.res.val, Lit.part3_mark) <=> 3 \in Includable

\* C7: when the payload is the legacy single string, assembly decrypts it
\* with key1 and returns the decrypted text as a one-part document: not
\* an empty document, no separator, key2 and key3 not used.
C7_LegacyPayload ==
  (/\ DescriptionReturned
   /\ call.net.fail_at \notin {1, 2}
   /\ Published.ok
   /\ Payload.ok
   /\ Payload.val.t = "string") =>
    LET text == decrypt_aes_cbc(Payload.val.str, Published.key1) IN
    text.ok => /\ result.value.res.ok
               /\ result.value.res.val = text.val

(***************************************************************************)
(* The form of a fetched body; the count of the parts of a cached document *)
(***************************************************************************)

\* The first byte of a body that is no whitespace (0: there is none).
FirstNonWhitespace(body) ==
  LET i == SkipWs(body, 1) IN IF i > Len(body) THEN 0 ELSE body[i]

InputBodyRead ==
  /\ call.fn = "fetch_input"
  /\ result.returned
  /\ result.value.form # ""

\* C8: the form of a fetched body is decided by its first non-whitespace
\* character: '{' makes it the object keyed by part number, also after
\* leading whitespace, and anything else the legacy string.  For
\* fetch_input the form is the branch taken; fetch_description takes a
\* body for the object when it assembles the parts the object holds.
C8_FormByFirstNonWhitespace ==
  /\ InputBodyRead =>
       (result.value.form = "object"
          <=> FirstNonWhitespace(call.input) = 123)
  /\ (AssemblyRan /\ Corrupt = {}) =>
       (FirstNonWhitespace(call.rem.description) = 123
          /\ result.value.parts = Ascending(Includable))

CachedPartCountReturned == call.fn = "cached_part_count" /\ result.returned

\* 1 when mark occurs in the text, else 0.
Present(text, mark) == IF contains(text, mark) THEN 1 ELSE 0

\* C2: for every cached document, cachedPartCount is 1, plus 1 if a part-2
\* separator is present, plus 1 if a part-3 separator is present: it lies
\* in 1..3 and does not grow when a label occurs more than once.
C2_CachedPartCount ==
  CachedPartCountReturned =>
    /\ result.value = 1 + Present(call.cached, Lit.part2_mark)
                        + Present(call.cached, Lit.part3_mark)
    /\ result.value \in 1..3

(***************************************************************************)
(* handle_fetch and handle_read: what they do with the description         *)
(***************************************************************************)

\* The errors of a request that got no answer or an error status.
TransportKinds == {"ApiError", "HttpError"}

\* The command of log called fetch_description and both its requests were
\* answered: it went on to parse and assemble the payload.
DescriptionFetched(log) ==
  /\ log.op \in {"fetch", "read"}
  /\ log.description.requests = 2
  /\ log.description.res.ok \/ log.description.res.kind \notin TransportKinds

\* The service publishes a multi-part payload with a corrupt part among
\* those to include; the lowest-numbered of them.
HasCorruptPart(rem) ==
  /\ PublishedOf(rem).ok
  /\ PayloadOf(rem).ok
  /\ PayloadOf(rem).val.t = "object"
  /\ CorruptOf(rem) # {}
FirstCorrupt(rem) ==
  CHOOSE k \in CorruptOf(rem) : \A j \in CorruptOf(rem) : k <= j

\* For every state of the service: whether it has a corrupt part, the
\* lowest-numbered one and the error its decryption gives.
CorruptParts ==
  [r \in Remotes |->
     IF HasCorruptPart(r)
     THEN [any |-> TRUE, all |-> CorruptOf(r), first |-> FirstCorrupt(r),
           failure |-> PlainOf(r, FirstCorrupt(r))]
     ELSE [any |-> FALSE, all |-> {}, first |-> 0,
           failure |-> Ok(<<>>, <<>>)]]
    @@ <<>>

\* A command that assembled a payload with a corrupt part: fetch_description
\* returned the decryption error of the lowest-numbered corrupt part and no
\* document, the command ended with that error, and no file was written.
C6Step ==
  (DescriptionFetched(last') /\ CorruptParts[remote].any) =>
    LET failure == CorruptParts[remote].failure
        returned == last'.description
    IN /\ ~returned.res.ok
       /\ returned.res.kind = failure.kind
       /\ returned.res.msg = failure.msg
       /\ returned.res.val = <<>>
       /\ returned.failed = CorruptParts[remote].first
       /\ ~last'.ok
       /\ last'.kind = failure.kind
       /\ last'.msg = failure.msg
       /\ last'.written = {}
       /\ files' = files

\* C6: assembly is all-or-nothing: when the decryption of a part that is
\* present in the payload and has an available key fails, fetch_description
\* returns the error of the lowest-numbered such part and no partial
\* document, and handle_fetch and handle_read write no file.
C6_AllOrNothing == [][C6Step]_vars

\* C6's case: handle_read found a cached description stale, fetched again,
\* part 2 of the payload failed to decrypt (part 3 is corrupt too), the
\* command ended with that error, and the cached file is as it was.
C6_Witness ==
  /\ last.op = "read"
  /\ last.had_cache
  /\ DescriptionFetched(last)
  /\ CorruptParts[remote].all = {2, 3}
  /\ last.description.failed = 2
  /\ ~last.ok
  /\ last.kind = "DecryptionError"
  /\ files[DescriptionFile(Storage_new(None), Quest.year, Quest.day)]
       = last.cached

\* C1: in handle_read with a cached document, the description is fetched
\* again if and only if cachedPartCount < availablePartCount, where
\* cachedPartCount is 1 plus the separators of parts 2 and 3 present in the
\* cached document and availablePartCount is 1 plus key2 and key3 present;
\* when it is not, the cache is not stale and the cached text is displayed.
C1_RefetchIffStale ==
  (last.op = "read" /\ last.had_cache /\ last.keys_ok) =>
    LET cachedPartCount ==
          1 + Present(last.cached, Lit.part2_mark)
            + Present(last.cached, Lit.part3_mark)
        availablePartCount ==
          1 + (IF PublishedOf(remote).key2.some THEN 1 ELSE 0)
            + (IF PublishedOf(remote).key3.some THEN 1 ELSE 0)
    IN /\ last.description.requests > 0
            <=> cachedPartCount < availablePartCount
       /\ ~(cachedPartCount < availablePartCount) =>
            last.shown = Some(last.cached)

(***************************************************************************)
(* decrypt_aes_cbc: the round trip                                         *)
(***************************************************************************)

\* C11: for every key of 16, 24 or 32 bytes and every UTF-8 plaintext,
\* decrypt_aes_cbc of the hex encoding of the plaintext encrypted in CBC
\* mode with PKCS#7 padding under that key, IV = the key's first 16 bytes,
\* returns exactly the plaintext, having selected the variant of the key's
\* length (16: AES-128, 24: AES-192, 32: AES-256).
C11_RoundTrip ==
  DecryptReturned =>
    \A p \in Plaintexts :
      (/\ Len(call.key) \in SupportedKeyLens
       /\ call.ciphertext_hex = encrypt_aes_cbc(p, call.key)) =>
        /\ result.value.ok
        /\ result.value.val = p
        /\ result.value.steps[5] =
             [n \in SupportedKeyLens |->
                IF n = 16 THEN "AES-128"
                ELSE IF n = 24 THEN "AES-192" ELSE "AES-256"][Len(call.key)]

\* C11's case: a plaintext of more than one block, encrypted under a key
\* of 32 bytes, was decrypted under that key and the call returned it.
C11_Witness ==
  /\ DecryptReturned
  /\ Len(call.key) = 32
  /\ call.ciphertext_hex = encrypt_aes_cbc(TextOfLen(17), call.key)
  /\ result.value.ok
  /\ result.value.val = TextOfLen(17)

(***************************************************************************)
(* fetch_quest_keys: its errors, its defaults and its one request          *)
(***************************************************************************)

QuestKeysReturned == call.fn = "fetch_quest_keys" /\ result.returned

\* The error kinds of a lookup that could not be made or was refused, and
\* the kind of an answer that cannot be decoded.
KeyFetchKinds == {"ApiError", "HttpError"}
MalformedKeyDataKinds == {"JsonError"}

\* The member lists the body of the call serialises (none when the body is
\* no object), and the value a list gives to a field.
MembersOfBody == {m \in KeyMemberLists : Object(m) = call.body}
Has(m, field) == \E i \in 1..Len(m) : m[i][1] = field
ValueOf(m, field) == m[CHOOSE i \in 1..Len(m) : m[i][1] = field][2]

\* C12: fetch_quest_keys issues exactly one request whatever the outcome.
\* When that request is not answered, or answered with a non-success
\* status, the call fails with a key-fetch error (ApiError, HttpError) and
\* returns no keys; when the body is no object or lacks key1 it fails with
\* the malformed-data error (JsonError), a different kind; otherwise it
\* returns key1, and key2 / key3 exactly when the body has them.
C12_FetchQuestKeys ==
  QuestKeysReturned =>
    /\ result.value.steps = <<"get_quest">>
    /\ call.net.fail_at = 1 =>
         /\ ~result.value.ok
         /\ result.value.kind \in KeyFetchKinds
         /\ result.value.val = <<>>
    /\ (/\ call.net.fail_at # 1
        /\ \A m \in MembersOfBody : ~Has(m, Lit.key1)) =>
         /\ ~result.value.ok
         /\ result.value.kind \in MalformedKeyDataKinds \ KeyFetchKinds
         /\ result.value.val = <<>>
    /\ \A m \in MembersOfBody :
         (call.net.fail_at # 1 /\ Has(m, Lit.key1)) =>
           /\ result.value.ok
           /\ result.value.val.key1 = ValueOf(m, Lit.key1)
           /\ result.value.val.key2 =
                IF Has(m, Lit.key2) THEN Some(ValueOf(m, Lit.key2)) ELSE None
           /\ result.value.val.key3 =
                IF Has(m, Lit.key3) THEN Some(ValueOf(m, Lit.key3)) ELSE None

\* C12's case: the service answered a well-formed body with a non-success
\* status, and the call failed with a key-fetch error after one request.
C12_Witness ==
  /\ QuestKeysReturned
  /\ call.net = [fail_at |-> 1, how |-> "status"]
  /\ \E m \in MembersOfBody : Has(m, Lit.key1) /\ Has(m, Lit.key2)
  /\ ~result.value.ok
  /\ result.value.kind = "HttpError"
  /\ result.value.steps = <<"get_quest">>

\* C13: every key set fetch_quest_keys returns has key1, and has key3 only
\* when it has key2.
C13_OrderedAvailability ==
  (QuestKeysReturned /\ result.value.ok) =>
    /\ result.value.val.key1 # <<>>
    /\ result.value.val.key3.some => result.value.val.key2.some

(***************************************************************************)
(* extract_expected_answer and extract_samples                             *)
(***************************************************************************)

ExpectedAnswerReturned ==
  call.fn = "extract_expected_answer" /\ result.returned

\* C14: extract_expected_answer returns the content of the last boxed
\* answer of the text, trimmed of the whitespace around it, however many
\* boxed answers come before it, and None when the text has none.
C14_LastBoxedAnswer ==
  ExpectedAnswerReturned =>
    result.value =
      IF call.answers = <<>> THEN None
      ELSE Some(call.answers[Len(call.answers)].value)

\* C14's case: a text with three boxed answers, the last one different
\* from the first and written with whitespace around its content, followed
\* by blocks that are no boxed answer; the last one's value was returned.
C14_Witness ==
  /\ ExpectedAnswerReturned
  /\ Len(call.answers) = 3
  /\ call.decoy
  /\ call.answers[3].value # call.answers[1].value
  /\ call.answers[3].raw # call.answers[3].value
  /\ result.value = Some(call.answers[3].value)

SamplesReturned == call.fn = "extract_samples" /\ result.returned

\* C15: extract_samples returns one entry for each example block of the
\* text (<pre class="note">), in the order of the text, each the block's
\* content without its leading whitespace and with everything after it
\* kept, and the empty sequence when the text has no example block.
C15_SamplesInOrder ==
  SamplesReturned =>
    result.value = [i \in 1..Len(call.notes) |-> call.notes[i].value]

\* C15's case: a text of three example blocks among blocks that are no
\* example, the first block with leading whitespace and a trailing line
\* break, the last a different one; three samples were returned.
C15_Witness ==
  /\ SamplesReturned
  /\ Len(call.notes) = 3
  /\ call.decoy
  /\ call.notes[1].raw # call.notes[1].value
  /\ call.notes[3] # call.notes[1]
  /\ Len(result.value) = 3
  /\ result.value[1] = call.notes[1].value

(***************************************************************************)
(* C16: the samples and expected answers handle_fetch saves                *)
(***************************************************************************)

\* The storage the commands' sample and answer files are under.
DefaultStorage == Storage_new(None)

\* For each state of the service and each part 1..3: the last example
\* block and the last boxed answer of the part's own decoded text (absent
\* when the part cannot be decoded or holds none).
OwnWorked ==
  [r \in Remotes |->
     [k \in 1..3 |->
        IF k \in IncludableOf(r) /\ PlainOf(r, k).ok
        THEN Let(extract_samples(PlainOf(r, k).val), LAMBDA own :
               [sample |-> IF own = <<>> THEN None ELSE Some(own[Len(own)]),
                answer |-> extract_expected_answer(PlainOf(r, k).val)])
        ELSE [sample |-> None, answer |-> None]]]
    @@ <<>>

\* The parts of the document the last command assembled.
IncludedParts ==
  {last.description.parts[i] : i \in 1..Len(last.description.parts)}

\* handle_fetch assembled a document (and so went on to save it and to
\* extract the samples).
FetchAssembled == last.op = "fetch" /\ last.description.res.ok

\* C16: after handle_fetch assembles a document, for each part k included
\* in it the sample saved for k is the last example block of part k's own
\* decoded text and the expected answer saved for k is the last boxed
\* answer of part k's own decoded text; nothing is saved for k out of
\* another part's text, and the expected answer is saved whenever the
\* part's text holds one.
C16_SavedPerPart ==
  FetchAssembled =>
    \A k \in IncludedParts :
      LET own == OwnWorked[remote][k]
          sample_file == SampleFile(DefaultStorage, Quest.year, Quest.day, k)
          answer_file == AnswerFile(DefaultStorage, Quest.year, Quest.day, k)
      IN /\ IF own.sample.some
            THEN /\ sample_file \in last.written
                 /\ files[sample_file] = own.sample.v
            ELSE sample_file \notin last.written
         /\ IF own.answer.some
            THEN /\ answer_file \in last.written
                 /\ files[answer_file] = own.answer.v
            ELSE answer_file \notin last.written

(***************************************************************************)
(* C17: the refresh of the cache converges                                 *)
(***************************************************************************)

\* handle_read found the cached description stale, fetched it again and
\* saved it.
Refreshed ==
  /\ last.op = "read"
  /\ last.had_cache
  /\ last.keys_ok
  /\ last.description.requests > 0
  /\ last.description.res.ok
  /\ last.written # {}

\* The log of a handle_read that follows at once: the same files, the same
\* keys and payload, a cookie and no fault.
FollowingRead ==
  handle_read(files, remote, Quest.year, Quest.day, TRUE, NoFault).log

\* C17: after handle_read found the cache stale, fetched the description
\* again and saved it, a handle_read that follows at once with the same
\* keys and the same payload finds cachedPartCount >= availablePartCount
\* and does not fetch the description again.
C17_RefreshConverges ==
  Refreshed =>
    /\ FollowingRead.keys_ok
    /\ FollowingRead.cached_parts >= FollowingRead.available_parts
    /\ FollowingRead.description.requests = 0

(***************************************************************************)
(* C18: handle_read overwrites the cache only after a successful re-fetch  *)
(***************************************************************************)

\* The file the stored document is in.
StoredDocument == DescriptionFile(DefaultStorage, Quest.year, Quest.day)

\* The re-fetch of the log: the cache was judged stale, fetch_description
\* was called and returned a document.
RefetchSucceeded(log) ==
  /\ log.keys_ok
  /\ log.cached_parts < log.available_parts
  /\ log.description.requests > 0
  /\ log.description.res.ok

C18Step ==
  (last'.op = "read" /\ last'.had_cache) =>
    /\ StoredDocument \in DOMAIN files
    /\ last'.cached = files[StoredDocument]
    /\ files'[StoredDocument] # files[StoredDocument] =>
         RefetchSucceeded(last')
    /\ ~RefetchSucceeded(last') =>
         /\ files' = files
         /\ last'.written = {}
    /\ RefetchSucceeded(last') =>
         files' = Write(files, StoredDocument, last'.description.res.val)

\* C18: in a handle_read that finds a cached document, the stored document
\* is overwritten only after a successful re-fetch: when the key lookup
\* fails, when the cache is judged not stale, and when the re-fetch or its
\* decryption fails, the stored document (and every other file) is left
\* as it was.
C18_OverwriteOnlyAfterRefetch == [][C18Step]_vars

\* C18's case: handle_read found a cached document stale, the re-fetch
\* ended with a transport error, and the stored document is the cached
\* one.
C18_Witness ==
  /\ last.op = "read"
  /\ last.had_cache
  /\ last.keys_ok
  /\ last.cached_parts < last.available_parts
  /\ last.description.requests = 2
  /\ ~last.description.res.ok
  /\ last.description.res.kind \in TransportKinds
  /\ ~last.ok
  /\ last.cached # <<>>
  /\ files[StoredDocument] = last.cached

(***************************************************************************)
(* C19: a saved description is the one found afterwards                    *)
(***************************************************************************)

\* The Storage the last handle_fetch saved the description with: built
\* with the custom description path when that is the path it wrote.
SavingStorage ==
  IF CustomDescriptionPath \in last.written
  THEN with_description_path(DefaultStorage, CustomDescriptionPath)
  ELSE DefaultStorage

\* C19: for every Storage, also one with a custom description path, after
\* save_description(year, day, content) succeeded, has_description(year,
\* day) is true and load_description(year, day) returns content; so the
\* description handle_fetch saved is the one a handle_read that follows
\* finds.
C19_SavedIsFound ==
  FetchAssembled =>
    /\ has_description(files, SavingStorage, Quest.year, Quest.day)
    /\ load_description(files, SavingStorage, Quest.year, Quest.day)
         = last.description.res.val
    /\ FollowingRead.had_cache
    /\ FollowingRead.cached = last.description.res.val

=============================================================================
